---- MODULE Spec2Model ----
(***************************************************************************)
(* EPUB ingestion pipeline of collab-reader (back/epub/parser.ts and       *)
(* back/epub/metadata.ts): parseEpub and the functions it calls, plus      *)
(* extractMetadata on its own.                                             *)
(*                                                                         *)
(* Strings that are paths are sequences of their "/"-separated segments,   *)
(* so "OEBPS/content.opf" is <<"OEBPS", "content.opf">> and the empty      *)
(* string is <<"">>.  An optional value is a sequence of length 0 or 1.    *)
(***************************************************************************)
EXTENDS Integers, Sequences, FiniteSets, TLC

VARIABLES
    epubFile,       \* the uploaded buffer: the archive it unzips to, or garbage
    pc,             \* position inside parseEpub
    unzippedEpub,   \* Record<string, Uint8Array>, path -> file
    opfLoc,         \* result of findOpfPath, optional
    opf,            \* result of parseOpfFile, optional
    parsedEpub,     \* result of extractEpubInfo, optional
    index,          \* loop index of parseChapters (0-based)
    newChapters,    \* chapters collected by parseChapters
    assets,         \* result of parseAssets: href -> bytes
    coverImageKey,  \* result of uploadCoverImage, optional
    minio,          \* objects written to object storage
    error,          \* the error parseEpub rejected with, or NoError
    metaIn,         \* raw metadata block handed to extractMetadata
    metaOut,        \* result of extractMetadata, optional
    htmlIn,         \* chapter markups handed to parseChapterData
    chapterOut,     \* results of parseChapterData on htmlIn
    earlier,        \* what an earlier parseEpub of the same buffer returned, optional
    request,        \* what the PUT / request carries
    db,             \* the relational store: books, chapters and assets tables
    insertedBook,   \* the row the book insert returned, optional
    assetsLeft,     \* entries of the assets map the route has still to store
    response        \* what the route answered, optional

vars == <<epubFile, pc, unzippedEpub, opfLoc, opf, parsedEpub, index,
          newChapters, assets, coverImageKey, minio, error, metaIn, metaOut,
          htmlIn, chapterOut, earlier, request, db, insertedBook, assetsLeft,
          response>>

\* the variables of the upload route
uploadVars == <<request, db, insertedBook, assetsLeft, response>>

(***************************************************************************)
(* Bounds                                                                  *)
(***************************************************************************)
MaxSpine == 2
MaxRootfiles == 2
MaxRepeat == 2

(***************************************************************************)
(* Values                                                                  *)
(***************************************************************************)
None == <<>>
Some(x) == <<x>>
EmptyStr == <<"">>

NoError == "none"
ErrArchiveFormat == "fflate: invalid zip data"
ErrContainerNotFound == "Invalid EPUB: META-INF/container.xml not found"
ErrNoRootfile == "Invalid EPUB: No rootfile found in container.xml"
ErrOpfNotFound == "OPF file not found"
ErrTypeError == "TypeError"
ErrXmlParse == "XMLParser error"

\* The errors the specification files under InvalidPackageError.
InvalidPackageError == {ErrContainerNotFound, ErrNoRootfile, ErrOpfNotFound}

containerPath == <<"META-INF", "container.xml">>

\* opfPath.substring(0, opfPath.lastIndexOf("/")) || ""
Dirname(path) ==
    IF Len(path) <= 1 THEN EmptyStr ELSE SubSeq(path, 1, Len(path) - 1)

\* `${base ? `${base}/` : ""}${href}`
JoinPath_NoBase(base, href) == href

JoinPath(base, href) ==
    IF base # EmptyStr THEN base \o href ELSE href

\* unzippedEpub[path]
Lookup(files, path) ==
    IF path \in DOMAIN files THEN Some(files[path]) ELSE None

\* A function result: either a thrown error or a returned value.
Throw(e) == [error |-> e, value |-> None]
Return(v) == [error |-> NoError, value |-> Some(v)]

(***************************************************************************)
(* findOpfPath.  A container.xml is modelled by what xmlParser.parse makes *)
(* of it: hasRootfiles says whether the <rootfiles> element exists,        *)
(* rootfile lists the full-path attributes of the <rootfile> elements.     *)
(* The parser yields undefined for no element, one object for one element  *)
(* and an array for two or more.                                           *)
(***************************************************************************)
findOpfPath_NoContainerCheck(files) ==
    LET containerData == Lookup(files, containerPath)
    IN  IF containerData = None
            \* without the check, xmlParser.parse("") has no container property
            THEN Throw(ErrTypeError)
        ELSE LET container == containerData[1]
             IN  IF ~container.hasRootfiles
                     THEN Throw(ErrTypeError)
                 ELSE IF Len(container.rootfile) = 0
                     THEN Throw(ErrNoRootfile)
                 ELSE IF Len(container.rootfile) >= 2
                     THEN Throw(ErrTypeError)
                 ELSE Return([opfPath |-> container.rootfile[1],
                              opfBasePath |-> Dirname(container.rootfile[1])])

findOpfPath(files) ==
    LET containerData == Lookup(files, containerPath)
    IN  IF containerData = None
            THEN Throw(ErrContainerNotFound)
        ELSE LET container == containerData[1]
             IN  IF ~container.hasRootfiles
                     \* container.container.rootfiles is undefined: .rootfile throws
                     THEN Throw(ErrTypeError)
                 ELSE IF Len(container.rootfile) = 0
                     \* "".rootfile is undefined
                     THEN Throw(ErrNoRootfile)
                 ELSE IF Len(container.rootfile) >= 2
                     \* rootfile is an array: rootfile["full-path"] is undefined
                     \* and opfPath.substring throws
                     THEN Throw(ErrTypeError)
                 ELSE Return([opfPath |-> container.rootfile[1],
                              opfBasePath |-> Dirname(container.rootfile[1])])

(***************************************************************************)
(* parseOpfFile                                                            *)
(***************************************************************************)
parseOpfFile_NoCheck(files, opfPath) ==
    LET opfData == Lookup(files, opfPath)
    IN  IF opfData = None
            \* without the check, opf.package is undefined and .version throws
            THEN Throw(ErrTypeError)
        ELSE Return(opfData[1])

parseOpfFile(files, opfPath) ==
    LET opfData == Lookup(files, opfPath)
    IN  IF opfData = None
            THEN Throw(ErrOpfNotFound)
        ELSE Return(opfData[1])

(***************************************************************************)
(* extractManifest and extractSpine.  The raw node lists the <item> or     *)
(* <itemref> elements; with no element the parser gives undefined and      *)
(* [undefined].map(...) dereferences undefined.                            *)
(***************************************************************************)
Includes(seq, x) == \E i \in 1..Len(seq) : seq[i] = x

extractManifest(manifestNode) ==
    IF Len(manifestNode) = 0
        THEN Throw(ErrTypeError)
    ELSE Return([i \in 1..Len(manifestNode) |->
            [id |-> manifestNode[i].id,
             href |-> manifestNode[i].href,
             mediaType |-> manifestNode[i].mediaType,
             properties |-> manifestNode[i].properties,
             isNavigation |-> Includes(manifestNode[i].properties, "nav"),
             isCoverImage |-> Includes(manifestNode[i].properties, "cover-image")]])

extractSpine(spineNode) ==
    IF Len(spineNode) = 0
        THEN Throw(ErrTypeError)
    ELSE Return([i \in 1..Len(spineNode) |->
            [idref |-> spineNode[i].idref,
             linear |-> spineNode[i].linear # "no"]])

\* array.find(pred), where hits are the positions at which pred holds: the
\* first element satisfying pred, optional
Find_Last(seq, hits) ==
    IF hits = {} THEN None
    ELSE Some(seq[CHOOSE i \in hits : \A j \in hits : i >= j])

Find(seq, hits) ==
    IF hits = {} THEN None
    ELSE Some(seq[CHOOSE i \in hits : \A j \in hits : i <= j])

\* manifest.find((item) => item.id === idref); with = for === the predicate
\* holds of every item and find returns the first one
FindManifestItem_Any(manifest, idref) ==
    IF Len(manifest) = 0 THEN None ELSE Some(manifest[1])

FindManifestItem(manifest, idref) ==
    Find(manifest, {i \in 1..Len(manifest) : manifest[i].id = idref})

(***************************************************************************)
(* Chapter markup.  A file is [type, parse, raw, tree]: raw is its text as *)
(* a sequence of tokens (tags, whitespace, words), tree is what            *)
(* XMLParser.parse returns for it (a node is a function from child element *)
(* names to values, <<>> for a node without element children), and parse   *)
(* says whether XMLParser.parse throws on it.                              *)
(***************************************************************************)
BodyOpenTokens == {"<body>"}
BodyCloseTokens == {"</body>"}
TagTokens == {"<html>", "</html>", "<head>", "</head>", "<title>", "</title>",
              "<body>", "</body>", "<p>", "</p>", "<div>", "</div>",
              "<section>", "</section>", "<img/>",
              "<img src=a.jpg/>", "<img src=b.png/>", "<img src=cover/>"}
WsTokens == {" ", "\n"}

IsWord(tok) == tok \notin TagTokens /\ tok \notin WsTokens

\* htmlContent.trim()
RECURSIVE TrimLeft(_)
TrimLeft(raw) ==
    IF raw # <<>> /\ Head(raw) \in WsTokens THEN TrimLeft(Tail(raw)) ELSE raw

RECURSIVE TrimRight(_)
TrimRight(raw) ==
    IF raw # <<>> /\ raw[Len(raw)] \in WsTokens
        THEN TrimRight(SubSeq(raw, 1, Len(raw) - 1))
    ELSE raw

Trim(raw) == TrimRight(TrimLeft(raw))

\* htmlContent.match(/<body[^>]*>([\s\S]*?)<\/body>/is)?.[1] || htmlContent
BodyContent(raw) ==
    LET opens == {i \in 1..Len(raw) :
                    /\ raw[i] \in BodyOpenTokens
                    /\ \E j \in (i + 1)..Len(raw) : raw[j] \in BodyCloseTokens}
    IN  IF opens = {} THEN raw
        ELSE LET i == CHOOSE x \in opens : \A y \in opens : x <= y
                 closes == {j \in (i + 1)..Len(raw) : raw[j] \in BodyCloseTokens}
                 j == CHOOSE x \in closes : \A y \in closes : x <= y
             IN  IF j = i + 1 THEN raw ELSE SubSeq(raw, i + 1, j - 1)

\* tags become spaces, whitespace runs collapse, split(" ") and drop the
\* empty strings: a word is a maximal run of word tokens
CountWords(content) ==
    Cardinality({i \in 1..Len(content) :
                    /\ IsWord(content[i])
                    /\ (i = 1 \/ ~IsWord(content[i - 1]))})

\* parsedHtml.html?.head?.title
ChapterTitle(tree) ==
    IF "html" \in DOMAIN tree
        THEN IF "head" \in DOMAIN tree.html
                THEN IF "title" \in DOMAIN tree.html.head
                        THEN Some(tree.html.head.title)
                     ELSE None
             ELSE None
    ELSE None

parseChapterData_NumberIsIndex(htmlContent, chapterNumber, spineIndex, href) ==
    IF htmlContent.parse = "throws"
        THEN Throw(ErrXmlParse)
    ELSE Return([chapterNumber |-> spineIndex,
                 spineIndex |-> spineIndex,
                 title |-> ChapterTitle(htmlContent.tree),
                 href |-> href,
                 htmlContent |-> Trim(htmlContent.raw),
                 wordCount |-> CountWords(BodyContent(htmlContent.raw))])

parseChapterData(htmlContent, chapterNumber, spineIndex, href) ==
    IF htmlContent.parse = "throws"
        THEN Throw(ErrXmlParse)
    ELSE Return([chapterNumber |-> chapterNumber,
                 spineIndex |-> spineIndex,
                 title |-> ChapterTitle(htmlContent.tree),
                 href |-> href,
                 htmlContent |-> Trim(htmlContent.raw),
                 wordCount |-> CountWords(BodyContent(htmlContent.raw))])

\* new TextDecoder().decode(data): undefined decodes to the empty string
EmptyText == [type |-> "markup", parse |-> "ok", raw |-> <<>>, tree |-> <<>>]

Decode(data) == IF data = None THEN EmptyText ELSE data[1]

(***************************************************************************)
(* parseAssets                                                             *)
(***************************************************************************)
IsChapterMediaType(mediaType) ==
    mediaType = "application/xhtml+xml" \/ mediaType = "text/html"

parseAssets_NoSkip(files, manifest, opfBasePath) ==
    LET kept == {i \in 1..Len(manifest) :
                    Lookup(files, JoinPath(opfBasePath, manifest[i].href)) # None}
        hrefs == {manifest[i].href : i \in kept}
    IN  [h \in hrefs |-> files[JoinPath(opfBasePath, h)]]

parseAssets(files, manifest, opfBasePath) ==
    LET kept == {i \in 1..Len(manifest) :
                    /\ ~IsChapterMediaType(manifest[i].mediaType)
                    /\ Lookup(files, JoinPath(opfBasePath, manifest[i].href)) # None}
        hrefs == {manifest[i].href : i \in kept}
    IN  [h \in hrefs |-> files[JoinPath(opfBasePath, h)]]

(***************************************************************************)
(* uploadCoverImage                                                        *)
(***************************************************************************)
\* for (const img of images) { if (img.src) return img.src }
RECURSIVE FirstSrc(_, _)
FirstSrc(images, i) ==
    IF i > Len(images) THEN None
    ELSE IF images[i].src # None /\ images[i].src # EmptyStr
        THEN images[i].src
    ELSE FirstSrc(images, i + 1)

RECURSIVE findFirstImage(_)
RECURSIVE FirstInNodes(_, _)

\* for (const div of divs) { const found = findFirstImage(div); ... }
FirstInNodes(nodes, i) ==
    IF i > Len(nodes) THEN None
    ELSE LET found == findFirstImage(nodes[i])
         IN  IF found # None THEN found ELSE FirstInNodes(nodes, i + 1)

findFirstImage(node) ==
    LET inImg  == IF "img" \in DOMAIN node THEN FirstSrc(node.img, 1) ELSE None
        inHtml == IF "html" \in DOMAIN node THEN findFirstImage(node.html) ELSE None
        inBody == IF "body" \in DOMAIN node THEN findFirstImage(node.body) ELSE None
        inDiv  == IF "div" \in DOMAIN node THEN FirstInNodes(node.div, 1) ELSE None
        inP    == IF "p" \in DOMAIN node THEN FirstInNodes(node.p, 1) ELSE None
    IN  IF inImg # None THEN inImg
        ELSE IF inHtml # None THEN inHtml
        ELSE IF inBody # None THEN inBody
        ELSE IF inDiv # None THEN inDiv
        ELSE inP

\* imageSrc.substring(imageSrc.lastIndexOf(".")): the names of the model that
\* hold a "." and the suffix from their last "."; a string without "." is
\* returned whole (lastIndexOf gives -1, substring(-1) is substring(0))
DotSuffix ==
    ("cover.jpg" :> ".jpg") @@ ("logo.png" :> ".png") @@ ("a.jpg" :> ".jpg")
    @@ ("b.png" :> ".png")

Extension(imageSrc) ==
    IF imageSrc[Len(imageSrc)] \in DOMAIN DotSuffix
        THEN <<DotSuffix[imageSrc[Len(imageSrc)]]>>
    ELSE imageSrc

HtmlDir_FirstSlash(htmlPath) ==
    IF Len(htmlPath) = 1 THEN EmptyStr ELSE <<htmlPath[1]>>

\* htmlPath.substring(0, htmlPath.lastIndexOf("/")) || ""
HtmlDir(htmlPath) == Dirname(htmlPath)

CoverImage_DeclaredCover(files, parsed) ==
    IF Len(parsed.spine) = 0 THEN None
    ELSE LET manifestItem == IF parsed.coverItem # None THEN parsed.coverItem
                             ELSE FindManifestItem(parsed.manifest, parsed.spine[1].idref)
         IN  IF manifestItem = None THEN None
             ELSE LET htmlPath == JoinPath(parsed.opfBasePath, manifestItem[1].href)
                      htmlData == Lookup(files, htmlPath)
                  IN  IF htmlData = None THEN None
                      ELSE IF htmlData[1].parse = "throws" THEN None
                      ELSE LET htmlDir == HtmlDir(htmlPath)
                               imageSrc == findFirstImage(htmlData[1].tree)
                           IN  IF imageSrc = None THEN None
                               ELSE LET resolvedImagePath == JoinPath(htmlDir, imageSrc)
                                        imageData == Lookup(files, resolvedImagePath)
                                    IN  IF imageData = None THEN None
                                        ELSE Some([imageSrc |-> imageSrc,
                                                   imageData |-> imageData[1],
                                                   extension |-> Extension(imageSrc)])

\* uploadCoverImage up to the storage write (lines 99-209): the image to
\* write, or None where the function returns null
CoverImage(files, parsed) ==
    IF Len(parsed.spine) = 0 THEN None
    ELSE LET manifestItem == FindManifestItem(parsed.manifest, parsed.spine[1].idref)
         IN  IF manifestItem = None THEN None
             ELSE LET htmlPath == JoinPath(parsed.opfBasePath, manifestItem[1].href)
                      htmlData == Lookup(files, htmlPath)
                  IN  IF htmlData = None THEN None
                      ELSE IF htmlData[1].parse = "throws" THEN None  \* caught
                      ELSE LET htmlDir == HtmlDir(htmlPath)
                               imageSrc == findFirstImage(htmlData[1].tree)
                           IN  IF imageSrc = None THEN None
                               ELSE LET resolvedImagePath == JoinPath(htmlDir, imageSrc)
                                        imageData == Lookup(files, resolvedImagePath)
                                    IN  IF imageData = None THEN None
                                        ELSE Some([imageSrc |-> imageSrc,
                                                   imageData |-> imageData[1],
                                                   extension |-> Extension(imageSrc)])

MinioWrite_JpegKey(store, s3Key, data) ==
    store \cup {[key |-> [s3Key EXCEPT !.extension = <<".jpg">>], data |-> data]}

\* minio.write(s3Key, data, ...): the store with the object under s3Key
MinioWrite(store, s3Key, data) == store \cup {[key |-> s3Key, data |-> data]}

\* randomUUIDv7()
UUIDs == {"uuid-1", "uuid-2"}

(***************************************************************************)
(* extractMetadata.  A raw value, as fast-xml-parser produces it with the  *)
(* configured options (text under _text, tag values parsed, so numeric     *)
(* text becomes a number), is one of:                                      *)
(*   absent; a bare string; a bare number; an object with attributes that  *)
(*   may hold text under _text or under _; an array of such values.        *)
(***************************************************************************)
Undef == [t |-> "undefined", v |-> ""]
Str(x) == [t |-> "string", v |-> x]
Num(x) == [t |-> "number", v |-> x]
Obj(text, under) == [t |-> "object", text |-> text, under |-> under]
Arr(items) == [t |-> "array", items |-> items]

\* JavaScript truthiness
Truthy(x) ==
    CASE x.t = "undefined" -> FALSE
      [] x.t = "string" -> x.v # ""
      [] x.t = "number" -> x.v # "0"
      [] OTHER -> TRUE

\* a || b
OrElse(a, b) == IF Truthy(a) THEN a ELSE b

getDcText(element) ==
    IF ~Truthy(element) THEN Undef
    ELSE IF element.t = "string" THEN element
    ELSE IF element.t = "object"
        THEN OrElse(OrElse(element.text, element.under), Undef)
    \* a number or an array has no _text and no _ property
    ELSE Undef

\* creatorsArray.map(getDcText).filter((a) => !!a)
RECURSIVE MapDcText(_)
MapDcText(items) ==
    IF items = <<>> THEN <<>>
    ELSE LET text == getDcText(Head(items))
         IN  IF Truthy(text) THEN <<text>> \o MapDcText(Tail(items))
             ELSE MapDcText(Tail(items))

getAuthors(creators) ==
    IF ~Truthy(creators) THEN <<>>
    ELSE MapDcText(IF creators.t = "array" THEN creators.items ELSE <<creators>>)

\* dc:subject: an array is mapped and filtered, a single value is wrapped
getSubjects(subject) ==
    IF ~Truthy(subject) THEN <<>>
    ELSE MapDcText(IF subject.t = "array" THEN subject.items ELSE <<subject>>)

\* metas.find(name === "cover" || property === "cover-image"), then
\* coverMeta?.content || coverMeta?.["#text"]; the parser never makes a
\* "#text" key, text is under _text
getCoverImageId(meta) ==
    LET coverMeta == Find(meta, {i \in 1..Len(meta) :
                            meta[i].name = "cover" \/ meta[i].property = "cover-image"})
    IN  IF coverMeta = None THEN Undef
        ELSE OrElse(coverMeta[1].content, Undef)

extractMetadata(metadataNode, epubVersion) ==
    LET authors == getAuthors(metadataNode.creator)
        subjects == getSubjects(metadataNode.subject)
    IN  [title |-> OrElse(getDcText(metadataNode.title), Str("Untitled")),
         author |-> IF authors = <<>> THEN Undef ELSE authors[1],
         authors |-> IF Len(authors) > 0 THEN Some(authors) ELSE None,
         publisher |-> getDcText(metadataNode.publisher),
         language |-> getDcText(metadataNode.language),
         isbn |-> getDcText(metadataNode.identifier),
         description |-> getDcText(metadataNode.description),
         subject |-> IF Len(subjects) > 0 THEN Some(subjects) ELSE None,
         date |-> getDcText(metadataNode.date),
         rights |-> getDcText(metadataNode.rights),
         coverImageId |-> getCoverImageId(metadataNode.meta),
         epubVersion |-> epubVersion]

\* createNewBookFromMetadata, without the two timestamps
createNewBookFromMetadata(metadata) ==
    [title |-> metadata.title,
     author |-> metadata.author,
     publisher |-> metadata.publisher,
     language |-> metadata.language,
     isbn |-> metadata.isbn,
     description |-> metadata.description,
     epubVersion |-> metadata.epubVersion]

(***************************************************************************)
(* Inputs: the archives ingestion is run on                                *)
(***************************************************************************)
PkgPaths == {<<"content.opf">>, <<"OEBPS", "content.opf">>}

\* container.xml files: without <rootfiles>, or with 0..MaxRootfiles <rootfile>
RECURSIVE SeqsUpTo(_, _)
SeqsUpTo(S, n) ==
    IF n = 0 THEN {<<>>}
    ELSE LET shorter == SeqsUpTo(S, n - 1)
         IN  shorter \cup {Append(q, x) : q \in shorter, x \in S}

Containers ==
    {[type |-> "container", hasRootfiles |-> FALSE, rootfile |-> <<>>]}
    \cup {[type |-> "container", hasRootfiles |-> TRUE, rootfile |-> r] :
            r \in SeqsUpTo(PkgPaths, MaxRootfiles)}

XhtmlType == "application/xhtml+xml"

\* the <item> elements a manifest is drawn from, in document order; the last
\* one repeats the id of the first
ItemPool ==
    << [id |-> "c1", href |-> <<"ch1.xhtml">>, mediaType |-> XhtmlType,
        properties |-> <<>>],
       [id |-> "c2", href |-> <<"text", "ch2.html">>, mediaType |-> "text/html",
        properties |-> <<>>],
       [id |-> "img1", href |-> <<"images", "cover.jpg">>, mediaType |-> "image/jpeg",
        properties |-> <<"cover-image">>],
       [id |-> "c1", href |-> <<"text", "ch2.html">>, mediaType |-> XhtmlType,
        properties |-> <<>>] >>

\* the elements of seq at the positions in S, in order
RECURSIVE SubList(_, _, _)
SubList(seq, S, i) ==
    IF i > Len(seq) THEN <<>>
    ELSE (IF i \in S THEN <<seq[i]>> ELSE <<>>) \o SubList(seq, S, i + 1)

ManifestNodes == {SubList(ItemPool, S, 1) : S \in SUBSET (1..Len(ItemPool))}

\* the <itemref> elements: "zz" is declared by no manifest item
SpineIds == {"c1", "c2", "img1", "zz"}
ItemRef(id) == [idref |-> id, linear |-> IF id = "c2" THEN "no" ELSE "absent"]
SpineNodes == {[i \in 1..Len(q) |-> ItemRef(q[i])] : q \in SeqsUpTo(SpineIds, MaxSpine)}

\* chapter files
Leaf == <<>>
HeadOf(title) == [title |-> title]

DocCover ==
    [type |-> "markup", parse |-> "ok",
     raw |-> <<"\n", "<html>", "<head>", "<title>", "Cover", "</title>", "</head>",
               "<body>", "<p>", "<img/>", "</p>", "</body>", "</html>", "\n">>,
     tree |-> [html |-> [head |-> HeadOf("Cover"),
                         body |-> [p |-> <<[img |-> <<[src |-> <<"images", "cover.jpg">>]>>]>>]]]]

DocText ==
    [type |-> "markup", parse |-> "ok",
     raw |-> <<"<html>", "<body>", "<p>", "Call", " ", "me", "</p>", "\n",
               "<p>", "Ishmael", "</p>", "</body>", "</html>">>,
     tree |-> [html |-> [body |-> [p |-> <<Leaf, Leaf>>]]]]

DocSection ==
    [type |-> "markup", parse |-> "ok",
     raw |-> <<"<html>", "<head>", "<title>", "Two", "</title>", "</head>", "<body>",
               "<section>", "<img/>", "</section>", "</body>", "</html>">>,
     tree |-> [html |-> [head |-> HeadOf("Two"),
                         body |-> [section |-> [img |-> <<[src |-> <<"cover.jpg">>]>>]]]]]

\* an image in a div, named relative to the chapter's own directory
DocNested ==
    [type |-> "markup", parse |-> "ok",
     raw |-> <<"<html>", "<body>", "<div>", "<img/>", "</div>", "</body>", "</html>">>,
     tree |-> [html |-> [body |-> [div |-> <<[img |-> <<[src |-> <<"pics", "logo.png">>]>>]>>]]]]

\* markup on which XMLParser.parse throws (e.g. a comment that is never closed)
DocMalformed ==
    [type |-> "markup", parse |-> "throws",
     raw |-> <<"<html>", "<body>", "<!--", "broken">>, tree |-> Leaf]

\* a file of zero bytes
EmptyFile == [type |-> "markup", parse |-> "ok", raw |-> <<>>, tree |-> Leaf]

\* an image: decoded as text it is one run of non-markup characters
Jpeg == [type |-> "bytes", parse |-> "ok", raw |-> <<"JFIF">>, tree |-> Leaf]

\* two different images of the same name, one beside the chapters of text/,
\* one beside the package document
Png == [type |-> "bytes", parse |-> "ok", raw |-> <<"PNG", "text">>, tree |-> Leaf]
PngOther == [type |-> "bytes", parse |-> "ok", raw |-> <<"PNG", "package">>, tree |-> Leaf]

Absent == None
Ch1Files == {Absent, Some(EmptyFile), Some(DocMalformed), Some(DocCover), Some(DocText)}
Ch2Files == {Absent, Some(DocMalformed), Some(DocSection), Some(DocNested)}
ImgFiles == {Absent, Some(Jpeg)}

Metadata1 ==
    [title |-> Str("Moby Dick"), creator |-> Str("Herman Melville"),
     publisher |-> Undef, language |-> Str("en"), identifier |-> Undef,
     description |-> Undef, subject |-> Undef, date |-> Undef, rights |-> Undef,
     meta |-> <<>>]

Package(manifestNode, spineNode) ==
    [type |-> "opf", version |-> "3.0", metadata |-> Metadata1,
     manifest |-> manifestNode, spine |-> spineNode]

\* a path -> file function from optional files
File(path, opt) == IF opt = None THEN <<>> ELSE (path :> opt[1])

\* <<>> @@ f is f, but @@ needs functions with comparable domains
Merge(f, g) ==
    [x \in (DOMAIN f) \cup (DOMAIN g) |-> IF x \in DOMAIN f THEN f[x] ELSE g[x]]

RECURSIVE MergeAll(_)
MergeAll(fs) == IF fs = <<>> THEN <<>> ELSE Merge(Head(fs), MergeAll(Tail(fs)))

Archive(container, opfAt, pkg, ch1, ch2, img) ==
    MergeAll(<< File(containerPath, container),
                [p \in opfAt |-> pkg],
                File(<<"OEBPS", "ch1.xhtml">>, ch1),
                File(<<"OEBPS", "text", "ch2.html">>, ch2),
                File(<<"OEBPS", "images", "cover.jpg">>, img),
                File(<<"OEBPS", "text", "pics", "logo.png">>, Some(Png)),
                File(<<"OEBPS", "pics", "logo.png">>, Some(PngOther)),
                File(<<"ch1.xhtml">>, Some(DocText)) >>)

FullManifest == ItemPool

\* archives that differ in the container descriptor and the place of the
\* package document
ContainerArchives ==
    {Archive(c, at, Package(FullManifest, sp), Some(DocCover), Some(DocSection), Some(Jpeg)) :
        c \in {None} \cup {Some(x) : x \in Containers},
        at \in SUBSET PkgPaths,
        sp \in SpineNodes}

\* archives with one rootfile and a package document, that differ in the
\* package and in the files
PackageArchives ==
    {Archive(Some([type |-> "container", hasRootfiles |-> TRUE, rootfile |-> <<p>>]),
             PkgPaths, Package(m, sp), ch1, ch2, img) :
        p \in PkgPaths, m \in ManifestNodes, sp \in SpineNodes,
        ch1 \in Ch1Files, ch2 \in Ch2Files, img \in ImgFiles}

EpubFiles ==
    {[valid |-> FALSE, files |-> <<>>]}
    \cup {[valid |-> TRUE, files |-> a] : a \in ContainerArchives \cup PackageArchives}

\* the tables before any upload, and the state of the upload route's
\* variables where no request is under way
EmptyDb == [books |-> {}, chapters |-> <<>>, assets |-> <<>>]

NoUpload ==
    /\ request = "none"
    /\ db = EmptyDb
    /\ insertedBook = None
    /\ assetsLeft = <<>>
    /\ response = None

(***************************************************************************)
(* parseEpub, step by step                                                 *)
(***************************************************************************)
Init ==
    /\ epubFile \in EpubFiles
    /\ pc = "unzipEpub"
    /\ unzippedEpub = <<>>
    /\ opfLoc = None
    /\ opf = None
    /\ parsedEpub = None
    /\ index = 0
    /\ newChapters = <<>>
    /\ assets = <<>>
    /\ coverImageKey = None
    /\ minio = {}
    /\ error = NoError
    /\ metaIn = None
    /\ metaOut = None
    /\ htmlIn = <<>>
    /\ chapterOut = <<>>
    /\ earlier = None
    /\ NoUpload

\* parseEpub rejects with e
Reject(e) ==
    /\ pc' = "failed"
    /\ error' = e

\* unzipEpub: fflate.unzipSync throws on a buffer that is no zip archive
UnzipEpub ==
    /\ pc = "unzipEpub"
    /\ IF epubFile.valid
          THEN /\ unzippedEpub' = epubFile.files
               /\ pc' = "findOpfPath"
               /\ error' = error
          ELSE /\ Reject(ErrArchiveFormat)
               /\ unzippedEpub' = unzippedEpub
    /\ UNCHANGED <<epubFile, opfLoc, opf, parsedEpub, index, newChapters, assets,
                   coverImageKey, minio, metaIn, metaOut,
                   htmlIn, chapterOut, earlier, uploadVars>>

\* extractEpubInfo, step 1
FindOpfPath ==
    /\ pc = "findOpfPath"
    /\ LET r == findOpfPath(unzippedEpub)
       IN  IF r.error # NoError
              THEN /\ Reject(r.error)
                   /\ opfLoc' = opfLoc
              ELSE /\ opfLoc' = r.value
                   /\ pc' = "parseOpfFile"
                   /\ error' = error
    /\ UNCHANGED <<epubFile, unzippedEpub, opf, parsedEpub, index, newChapters,
                   assets, coverImageKey, minio, metaIn, metaOut,
                   htmlIn, chapterOut, earlier, uploadVars>>

\* extractEpubInfo, step 2
ParseOpfFile ==
    /\ pc = "parseOpfFile"
    /\ LET r == parseOpfFile(unzippedEpub, opfLoc[1].opfPath)
       IN  IF r.error # NoError
              THEN /\ Reject(r.error)
                   /\ opf' = opf
              ELSE /\ opf' = r.value
                   /\ pc' = "extractEpubInfo"
                   /\ error' = error
    /\ UNCHANGED <<epubFile, unzippedEpub, opfLoc, parsedEpub, index, newChapters,
                   assets, coverImageKey, minio, metaIn, metaOut,
                   htmlIn, chapterOut, earlier, uploadVars>>

IsNcx(item) == item.mediaType = "application/x-dtbncx+xml"

\* extractEpubInfo, steps 3 to 6, and its return
ExtractEpubInfo ==
    /\ pc = "extractEpubInfo"
    /\ LET pkg == opf[1]
           metadata == extractMetadata(pkg.metadata, pkg.version)
           manifest == extractManifest(pkg.manifest)
           spine == extractSpine(pkg.spine)
       IN  IF manifest.error # NoError
              THEN /\ Reject(manifest.error)
                   /\ parsedEpub' = parsedEpub
           ELSE IF spine.error # NoError
              THEN /\ Reject(spine.error)
                   /\ parsedEpub' = parsedEpub
           ELSE /\ parsedEpub' = Some(
                       [metadata |-> metadata,
                        manifest |-> manifest.value[1],
                        spine |-> spine.value[1],
                        opfPath |-> opfLoc[1].opfPath,
                        opfBasePath |-> opfLoc[1].opfBasePath,
                        coverItem |-> Find(manifest.value[1],
                            {i \in 1..Len(manifest.value[1]) : manifest.value[1][i].isCoverImage}),
                        navigationItem |-> Find(manifest.value[1],
                            {i \in 1..Len(manifest.value[1]) : manifest.value[1][i].isNavigation}),
                        ncxItem |-> Find(manifest.value[1],
                            {i \in 1..Len(manifest.value[1]) : IsNcx(manifest.value[1][i])})])
                /\ pc' = "parseChapters"
                /\ error' = error
    /\ UNCHANGED <<epubFile, unzippedEpub, opfLoc, opf, index, newChapters,
                   assets, coverImageKey, minio, metaIn, metaOut,
                   htmlIn, chapterOut, earlier, uploadVars>>

\* one iteration of the loop of parseChapters
ParseChapter ==
    /\ pc = "parseChapters"
    /\ index < Len(parsedEpub[1].spine)
    /\ LET spineItem == parsedEpub[1].spine[index + 1]
           manifestItem == FindManifestItem(parsedEpub[1].manifest, spineItem.idref)
       IN  IF manifestItem = None
              THEN /\ index' = index + 1                       \* continue
                   /\ UNCHANGED <<newChapters, pc, error>>
           ELSE LET chapterPath == JoinPath(parsedEpub[1].opfBasePath, manifestItem[1].href)
                    chapterString == Decode(Lookup(unzippedEpub, chapterPath))
                IN  IF chapterString.raw = <<>>
                       THEN /\ index' = index + 1               \* continue
                            /\ UNCHANGED <<newChapters, pc, error>>
                    ELSE LET chapterData == parseChapterData(chapterString, index + 1,
                                                             index, manifestItem[1].href)
                         IN  IF chapterData.error # NoError
                                THEN /\ Reject(chapterData.error)
                                     /\ UNCHANGED <<index, newChapters>>
                             ELSE /\ newChapters' = Append(newChapters,
                                       [title |-> chapterData.value[1].title,
                                        wordCount |-> chapterData.value[1].wordCount,
                                        chapterNumber |-> chapterData.value[1].chapterNumber,
                                        href |-> manifestItem[1].href,
                                        htmlContent |-> chapterData.value[1].htmlContent,
                                        spineIndex |-> index])
                                  /\ index' = index + 1
                                  /\ UNCHANGED <<pc, error>>
    /\ UNCHANGED <<epubFile, unzippedEpub, opfLoc, opf, parsedEpub, assets,
                   coverImageKey, minio, metaIn, metaOut,
                   htmlIn, chapterOut, earlier, uploadVars>>

\* parseChapters returns, then parseAssets
ParseAssets ==
    /\ pc = "parseChapters"
    /\ index >= Len(parsedEpub[1].spine)
    /\ assets' = parseAssets(unzippedEpub, parsedEpub[1].manifest, parsedEpub[1].opfBasePath)
    /\ pc' = "uploadCoverImage"
    /\ UNCHANGED <<epubFile, unzippedEpub, opfLoc, opf, parsedEpub, index,
                   newChapters, coverImageKey, minio, error, metaIn, metaOut,
                   htmlIn, chapterOut, earlier, uploadVars>>

\* uploadCoverImage and the return of parseEpub; minio.write may throw, which
\* the function catches
UploadCoverImage ==
    /\ pc = "uploadCoverImage"
    /\ LET cover == CoverImage(unzippedEpub, parsedEpub[1])
       IN  \/ /\ cover = None
              /\ coverImageKey' = None
              /\ minio' = minio
           \/ /\ cover # None
              /\ \E uuid \in UUIDs :
                    LET s3Key == [uuid |-> uuid, extension |-> cover[1].extension]
                    IN  /\ minio' = MinioWrite(minio, s3Key, cover[1].imageData)
                        /\ coverImageKey' = Some(s3Key)
           \/ /\ cover # None
              /\ coverImageKey' = None
              /\ minio' = minio
    /\ pc' = "done"
    /\ UNCHANGED <<epubFile, unzippedEpub, opfLoc, opf, parsedEpub, index,
                   newChapters, assets, error, metaIn, metaOut,
                   htmlIn, chapterOut, earlier, uploadVars>>

Next ==
    \/ UnzipEpub
    \/ FindOpfPath
    \/ ParseOpfFile
    \/ ExtractEpubInfo
    \/ ParseChapter
    \/ ParseAssets
    \/ UploadCoverImage

Spec == Init /\ [][Next]_vars

(***************************************************************************)
(* extractMetadata on its own, over the raw shapes the parser produces     *)
(***************************************************************************)
ScalarValues == {Undef, Str(""), Str("Dune"), Num("0"), Num("1984")}

ObjectValues ==
    {Obj(text, under) : text \in {Undef, Str("Dune"), Num("0"), Num("1984")},
                        under \in {Undef, Str("Alt")}}

\* a repeated element: two or more values
RepeatedItems == {Str("Dune"), Str("Messiah"), Obj(Str("Dune"), Undef)}
ArrayValues ==
    {Arr(q) : q \in {x \in SeqsUpTo(RepeatedItems, MaxRepeat) : Len(x) >= 2}}

DcValues == ScalarValues \cup ObjectValues \cup ArrayValues

OtherValues == {Undef, Str("Ace"), Obj(Str("Ace"), Undef), Arr(<<Str("Ace"), Str("Tor")>>)}
SubjectValues == {Undef, Str("sf"), Arr(<<Str("sf"), Str("sf")>>)}

Meta(name, property, content, text) ==
    [name |-> name, property |-> property, content |-> content, text |-> text]

MetaValues ==
    { <<>>,
      <<Meta("cover", "", Str("img1"), Undef)>>,
      <<Meta("cover", "", Undef, Str("img1"))>>,
      <<Meta("generator", "", Str("calibre"), Undef),
        Meta("", "cover-image", Str("img1"), Undef)>> }

RawMetadataBlocks ==
    {[title |-> t, creator |-> c, publisher |-> o, language |-> o,
      identifier |-> o, description |-> o, subject |-> s, date |-> o,
      rights |-> o, meta |-> m] :
        t \in DcValues, c \in DcValues, o \in OtherValues,
        s \in SubjectValues, m \in MetaValues}

InitMeta ==
    /\ metaIn \in {Some(b) : b \in RawMetadataBlocks}
    /\ metaOut = None
    /\ pc = "extractMetadata"
    /\ epubFile = [valid |-> FALSE, files |-> <<>>]
    /\ unzippedEpub = <<>>
    /\ opfLoc = None
    /\ opf = None
    /\ parsedEpub = None
    /\ index = 0
    /\ newChapters = <<>>
    /\ assets = <<>>
    /\ coverImageKey = None
    /\ minio = {}
    /\ error = NoError
    /\ htmlIn = <<>>
    /\ chapterOut = <<>>
    /\ earlier = None
    /\ NoUpload

ExtractMetadata ==
    /\ pc = "extractMetadata"
    /\ metaOut' = Some(extractMetadata(metaIn[1], "3.0"))
    /\ pc' = "returned"
    /\ UNCHANGED <<epubFile, unzippedEpub, opfLoc, opf, parsedEpub, index,
                   newChapters, assets, coverImageKey, minio, error, metaIn,
                   htmlIn, chapterOut, earlier, uploadVars>>

NextMeta == ExtractMetadata

SpecMeta == InitMeta /\ [][NextMeta]_vars

(***************************************************************************)
(* parseChapterData on its own, over chapter markups that have a body      *)
(* element, taken in pairs that differ in one piece of whitespace          *)
(***************************************************************************)
MaxBody == 3

HeadTokens == {<<>>, <<"<head>", "<title>", "Test", "</title>", "</head>">>}
BodyTokenPool == {"<p>", "</p>", " ", "\n", "Hello"}

MarkupOf(head, body) ==
    [type |-> "markup", parse |-> "ok",
     raw |-> <<"<html>">> \o head \o <<"<body>">> \o body \o <<"</body>", "</html>">>,
     tree |-> IF head = <<>> THEN [html |-> [body |-> Leaf]]
              ELSE [html |-> [head |-> HeadOf("Test"), body |-> Leaf]]]

BodyMarkups ==
    {MarkupOf(h, b) : h \in HeadTokens, b \in SeqsUpTo(BodyTokenPool, MaxBody)}

\* raw with the whitespace token ws put in after its first k tokens
InsertAt(raw, k, ws) == SubSeq(raw, 1, k) \o <<ws>> \o SubSeq(raw, k + 1, Len(raw))

\* the markups that are doc with one more whitespace token or with one
\* whitespace token of the other kind; whitespace never goes inside a word
WhitespaceVariants(doc) ==
    {[doc EXCEPT !.raw = InsertAt(doc.raw, k, ws)] :
        k \in {x \in 0..Len(doc.raw) :
                  ~(x >= 1 /\ x < Len(doc.raw)
                    /\ IsWord(doc.raw[x]) /\ IsWord(doc.raw[x + 1]))},
        ws \in WsTokens}
    \cup {[doc EXCEPT !.raw[k] = ws] :
            k \in {x \in 1..Len(doc.raw) : doc.raw[x] \in WsTokens}, ws \in WsTokens}

InitWords ==
    /\ \E doc \in BodyMarkups : \E other \in WhitespaceVariants(doc) :
          htmlIn = <<doc, other>>
    /\ chapterOut = <<>>
    /\ pc = "parseChapterData"
    /\ epubFile = [valid |-> FALSE, files |-> <<>>]
    /\ unzippedEpub = <<>>
    /\ opfLoc = None
    /\ opf = None
    /\ parsedEpub = None
    /\ index = 0
    /\ newChapters = <<>>
    /\ assets = <<>>
    /\ coverImageKey = None
    /\ minio = {}
    /\ error = NoError
    /\ metaIn = None
    /\ metaOut = None
    /\ earlier = None
    /\ NoUpload

ParseChapterData ==
    /\ pc = "parseChapterData"
    /\ chapterOut' = [i \in 1..Len(htmlIn) |->
                         parseChapterData(htmlIn[i], 1, 0, <<"chapter1.xhtml">>)]
    /\ pc' = "returned"
    /\ UNCHANGED <<epubFile, unzippedEpub, opfLoc, opf, parsedEpub, index,
                   newChapters, assets, coverImageKey, minio, error, metaIn, metaOut,
                   htmlIn, earlier, uploadVars>>

NextWords == ParseChapterData

SpecWords == InitWords /\ [][NextWords]_vars

(***************************************************************************)
(* parseEpub called a second time on the same buffer, in the same process  *)
(* and against the same object storage                                     *)
(***************************************************************************)
TwiceFiles ==
    {[valid |-> FALSE, files |-> <<>>]}
    \cup {[valid |-> TRUE,
           files |-> Archive(Some([type |-> "container", hasRootfiles |-> TRUE,
                                   rootfile |-> <<<<"OEBPS", "content.opf">>>>]),
                             PkgPaths, Package(FullManifest, sp), ch1, ch2, img)] :
            sp \in SpineNodes, ch1 \in Ch1Files, ch2 \in Ch2Files, img \in ImgFiles}

InitTwice ==
    /\ Init
    /\ epubFile \in TwiceFiles

\* const newChapters: NewChapter[] = [] is local to each call of parseChapters
FreshChapters_Shared == newChapters

FreshChapters == <<>>

\* const assets: Record<string, Uint8Array> = {} is local to each call of
\* parseAssets, which fills it whole
FreshAssets == <<>>

\* the caller keeps what parseEpub returned or threw and calls it again with
\* the same buffer; the objects in storage stay
Reingest ==
    /\ pc \in {"done", "failed"}
    /\ earlier = None
    /\ earlier' = Some([returned |-> pc = "done", error |-> error,
                        chapters |-> newChapters, assets |-> assets,
                        coverImageKey |-> coverImageKey])
    /\ pc' = "unzipEpub"
    /\ unzippedEpub' = <<>>
    /\ opfLoc' = None
    /\ opf' = None
    /\ parsedEpub' = None
    /\ index' = 0
    /\ newChapters' = FreshChapters
    /\ assets' = FreshAssets
    /\ coverImageKey' = None
    /\ error' = NoError
    /\ UNCHANGED <<epubFile, minio, metaIn, metaOut, htmlIn, chapterOut, uploadVars>>

NextTwice ==
    \/ Next
    \/ Reingest

SpecTwice == InitTwice /\ [][NextTwice]_vars

(***************************************************************************)
(* parseAssets on its own, over manifests and archives                     *)
(***************************************************************************)
\* the <item> elements of these manifests: the last one declares the href
\* of the image again, as chapter markup
AssetItemPool ==
    << [id |-> "c1", href |-> <<"ch1.xhtml">>, mediaType |-> XhtmlType,
        properties |-> <<>>],
       [id |-> "c2", href |-> <<"text", "ch2.html">>, mediaType |-> "text/html",
        properties |-> <<>>],
       [id |-> "img1", href |-> <<"images", "cover.jpg">>, mediaType |-> "image/jpeg",
        properties |-> <<"cover-image">>],
       [id |-> "css1", href |-> <<"style.css">>, mediaType |-> "text/css",
        properties |-> <<>>],
       [id |-> "c3", href |-> <<"images", "cover.jpg">>, mediaType |-> XhtmlType,
        properties |-> <<>>] >>

AssetManifests ==
    {extractManifest(SubList(AssetItemPool, S, 1)).value[1] :
        S \in (SUBSET (1..Len(AssetItemPool))) \ {{}}}

Css == [type |-> "bytes", parse |-> "ok", raw |-> <<"body", "{", "}">>, tree |-> Leaf]

AssetBasePaths == {EmptyStr, <<"OEBPS">>}

\* the files an archive of these may hold, under either base path
AssetFilePool ==
    LET under(base) ==
            MergeAll(<< File(JoinPath(base, <<"ch1.xhtml">>), Some(DocText)),
                        File(JoinPath(base, <<"images", "cover.jpg">>), Some(Jpeg)),
                        File(JoinPath(base, <<"style.css">>), Some(Css)) >>)
    IN  Merge(under(EmptyStr), under(<<"OEBPS">>))

AssetArchives ==
    {[path \in P |-> AssetFilePool[path]] : P \in SUBSET (DOMAIN AssetFilePool)}

InitAssets ==
    /\ unzippedEpub \in AssetArchives
    /\ parsedEpub \in {Some([manifest |-> m, opfBasePath |-> b]) :
                          m \in AssetManifests, b \in AssetBasePaths}
    /\ assets = <<>>
    /\ pc = "parseAssets"
    /\ epubFile = [valid |-> TRUE, files |-> unzippedEpub]
    /\ opfLoc = None
    /\ opf = None
    /\ index = 0
    /\ newChapters = <<>>
    /\ coverImageKey = None
    /\ minio = {}
    /\ error = NoError
    /\ metaIn = None
    /\ metaOut = None
    /\ htmlIn = <<>>
    /\ chapterOut = <<>>
    /\ earlier = None
    /\ NoUpload

CallParseAssets ==
    /\ pc = "parseAssets"
    /\ assets' = parseAssets(unzippedEpub, parsedEpub[1].manifest, parsedEpub[1].opfBasePath)
    /\ pc' = "returned"
    /\ UNCHANGED <<epubFile, unzippedEpub, opfLoc, opf, parsedEpub, index,
                   newChapters, coverImageKey, minio, error, metaIn, metaOut,
                   htmlIn, chapterOut, earlier, uploadVars>>

NextAssets == CallParseAssets

SpecAssets == InitAssets /\ [][NextAssets]_vars

(***************************************************************************)
(* uploadCoverImage on its own, over first chapters that hold several      *)
(* images and archives that hold any of the image files                    *)
(***************************************************************************)
\* the src of the img start tags of these chapters
ImgTokenSrc ==
    ("<img src=a.jpg/>" :> <<"a.jpg">>) @@ ("<img src=b.png/>" :> <<"b.png">>)
    @@ ("<img src=cover/>" :> <<"cover">>)

ImgA == [src |-> <<"a.jpg">>]
ImgB == [src |-> <<"b.png">>]

BodyMarkup(tokens, body) ==
    [type |-> "markup", parse |-> "ok",
     raw |-> <<"<html>", "<body>">> \o tokens \o <<"</body>", "</html>">>,
     tree |-> [html |-> [body |-> body]]]

\* <div><img a/></div><img b/>
DocDivThenImg ==
    BodyMarkup(<<"<div>", "<img src=a.jpg/>", "</div>", "<img src=b.png/>">>,
               [div |-> <<[img |-> <<ImgA>>]>>, img |-> <<ImgB>>])

\* <p><img a/></p><div><img b/></div>
DocPThenDiv ==
    BodyMarkup(<<"<p>", "<img src=a.jpg/>", "</p>", "<div>", "<img src=b.png/>", "</div>">>,
               [p |-> <<[img |-> <<ImgA>>]>>, div |-> <<[img |-> <<ImgB>>]>>])

\* <img a/><img b/>
DocTwoImages ==
    BodyMarkup(<<"<img src=a.jpg/>", "<img src=b.png/>">>, [img |-> <<ImgA, ImgB>>])

\* <div><p><img a/></p></div><div><img b/></div>
DocDivDiv ==
    BodyMarkup(<<"<div>", "<p>", "<img src=a.jpg/>", "</p>", "</div>",
                 "<div>", "<img src=b.png/>", "</div>">>,
               [div |-> <<[p |-> <<[img |-> <<ImgA>>]>>], [img |-> <<ImgB>>]>>])

\* <div><img src="cover"/></div>: a reference without "."
DocNoDot ==
    BodyMarkup(<<"<div>", "<img src=cover/>", "</div>">>,
               [div |-> <<[img |-> <<[src |-> <<"cover">>]>>]>>])

CoverDocs == {DocDivThenImg, DocPThenDiv, DocTwoImages, DocDivDiv, DocNoDot, DocText}

CoverBasePaths == {EmptyStr, <<"OEBPS">>}

\* the image files an archive of these may hold
CoverImageFiles ==
    (<<"a.jpg">> :> Jpeg) @@ (<<"b.png">> :> Png) @@ (<<"cover">> :> PngOther)

CoverArchive(base, doc, images) ==
    Merge(File(JoinPath(base, <<"ch1.xhtml">>), Some(doc)),
          [path \in {JoinPath(base, name) : name \in images} |->
              CoverImageFiles[SubSeq(path, Len(path), Len(path))]])

\* the parsed package of these archives: one chapter, first in the spine
CoverParsed(base) ==
    [metadata |-> extractMetadata(Metadata1, "3.0"),
     manifest |-> extractManifest(<<ItemPool[1]>>).value[1],
     spine |-> extractSpine(<<ItemRef("c1")>>).value[1],
     opfPath |-> JoinPath(base, <<"content.opf">>),
     opfBasePath |-> base,
     coverItem |-> None,
     navigationItem |-> None,
     ncxItem |-> None]

InitCover ==
    /\ \E base \in CoverBasePaths, doc \in CoverDocs,
          images \in SUBSET (DOMAIN CoverImageFiles) :
          /\ unzippedEpub = CoverArchive(base, doc, images)
          /\ parsedEpub = Some(CoverParsed(base))
    /\ pc = "uploadCoverImage"
    /\ epubFile = [valid |-> TRUE, files |-> unzippedEpub]
    /\ opfLoc = None
    /\ opf = None
    /\ index = 0
    /\ newChapters = <<>>
    /\ assets = <<>>
    /\ coverImageKey = None
    /\ minio = {}
    /\ error = NoError
    /\ metaIn = None
    /\ metaOut = None
    /\ htmlIn = <<>>
    /\ chapterOut = <<>>
    /\ earlier = None
    /\ NoUpload

NextCover == UploadCoverImage

SpecCover == InitCover /\ [][NextCover]_vars

(***************************************************************************)
(* The upload route, PUT /: parseEpub, then the book row, the chapter      *)
(* rows, and for every asset a storage write and an asset row.  Every      *)
(* awaited call of the store or of the storage may throw; the handler has  *)
(* no try/catch and opens no transaction, so a throw ends the request      *)
(* with what was written so far.                                           *)
(***************************************************************************)
Requests == {"unauthorized", "noFile", "notFile", "file"}

\* the manifest of the uploaded packages: the pool and a second image
UploadManifest ==
    ItemPool \o <<[id |-> "img2", href |-> <<"pics", "logo.png">>,
                   mediaType |-> "image/png", properties |-> <<>>]>>

UploadFiles ==
    {[valid |-> FALSE, files |-> <<>>]}
    \cup {[valid |-> TRUE,
           files |-> Archive(Some([type |-> "container", hasRootfiles |-> TRUE,
                                   rootfile |-> <<<<"OEBPS", "content.opf">>>>]),
                             PkgPaths, Package(UploadManifest, sp), ch1, ch2, img)] :
            sp \in SpineNodes, ch1 \in Ch1Files, ch2 \in Ch2Files, img \in ImgFiles}

\* books.id, defaultRandom()
NewBookIds == {"book-1", "book-2"}

\* a row of the books table; the route gives no cover column a value
BookRow(id, userId, newBook) ==
    [id |-> id, userId |-> userId, coverImagePath |-> None, values |-> newBook]

\* a book of an earlier upload
ExistingBook ==
    BookRow("book-0", "user-2", createNewBookFromMetadata(extractMetadata(Metadata1, "2.0")))

AssetKey_PathOnly(bookId, originalPath) ==
    [bookId |-> "", originalPath |-> originalPath]

\* `books/${bookId}/assets/${originalPath}`
AssetKey(bookId, originalPath) == [bookId |-> bookId, originalPath |-> originalPath]

\* Object.entries(parsedEpub.assets): the keys in the order parseAssets
\* wrote them, which is manifest order
RECURSIVE AssetEntries(_, _, _)
AssetEntries(map, manifest, i) ==
    IF i > Len(manifest) THEN <<>>
    ELSE IF /\ manifest[i].href \in DOMAIN map
            /\ ~IsChapterMediaType(manifest[i].mediaType)
            /\ \A j \in 1..(i - 1) : \/ manifest[j].href # manifest[i].href
                                     \/ IsChapterMediaType(manifest[j].mediaType)
        THEN <<manifest[i].href>> \o AssetEntries(map, manifest, i + 1)
    ELSE AssetEntries(map, manifest, i + 1)

InitUpload ==
    /\ request \in Requests
    /\ epubFile \in (IF request = "file" THEN UploadFiles
                     ELSE {[valid |-> FALSE, files |-> <<>>]})
    /\ pc = "request"
    /\ db = [EmptyDb EXCEPT !.books = {ExistingBook}]
    /\ insertedBook = None
    /\ assetsLeft = <<>>
    /\ response = None
    /\ unzippedEpub = <<>>
    /\ opfLoc = None
    /\ opf = None
    /\ parsedEpub = None
    /\ index = 0
    /\ newChapters = <<>>
    /\ assets = <<>>
    /\ coverImageKey = None
    /\ minio = {}
    /\ error = NoError
    /\ metaIn = None
    /\ metaOut = None
    /\ htmlIn = <<>>
    /\ chapterOut = <<>>
    /\ earlier = None

\* an awaited call throws: the request ends with the exception
HandlerThrows ==
    /\ pc' = "responded"
    /\ response' = Some("exception")

\* the checks of user and file, up to the call of parseEpub
ReceiveRequest ==
    /\ pc = "request"
    /\ IF request = "unauthorized"
          THEN pc' = "responded" /\ response' = Some("401 Unauthorized")
       ELSE IF request = "noFile"
          THEN pc' = "responded" /\ response' = Some("400 No file provided")
       ELSE IF request = "notFile"
          THEN pc' = "responded" /\ response' = Some("400 Invalid file type")
       ELSE pc' = "unzipEpub" /\ response' = response
    /\ UNCHANGED <<epubFile, unzippedEpub, opfLoc, opf, parsedEpub, index,
                   newChapters, assets, coverImageKey, minio, error, metaIn, metaOut,
                   htmlIn, chapterOut, earlier, request, db, insertedBook, assetsLeft>>

\* await parseEpub(buffer) rejects
ParseEpubThrows ==
    /\ pc = "failed"
    /\ request = "file"
    /\ HandlerThrows
    /\ UNCHANGED <<epubFile, unzippedEpub, opfLoc, opf, parsedEpub, index,
                   newChapters, assets, coverImageKey, minio, error, metaIn, metaOut,
                   htmlIn, chapterOut, earlier, request, db, insertedBook, assetsLeft>>

\* db.insert(books).values({...parsedEpub.newBook, userId}).returning():
\* an insert of one row that does not throw returns that row, so the
\* answer for a missing insertedBook is never given
InsertBook ==
    /\ pc = "done"
    /\ request = "file"
    /\ \/ \E id \in NewBookIds :
             LET row == BookRow(id, "user-1",
                                createNewBookFromMetadata(parsedEpub[1].metadata))
             IN  /\ db' = [db EXCEPT !.books = @ \cup {row}]
                 /\ insertedBook' = Some(row)
                 /\ pc' = "insertChapters"
                 /\ response' = response
       \/ /\ HandlerThrows
          /\ UNCHANGED <<db, insertedBook>>
    /\ UNCHANGED <<epubFile, unzippedEpub, opfLoc, opf, parsedEpub, index,
                   newChapters, assets, coverImageKey, minio, error, metaIn, metaOut,
                   htmlIn, chapterOut, earlier, request, assetsLeft>>

\* db.insert(chapters).values(parsedEpub.chapters.map(...)): one statement;
\* values() of an empty array throws
InsertChapters ==
    /\ pc = "insertChapters"
    /\ \/ /\ newChapters # <<>>
          /\ db' = [db EXCEPT !.chapters = @ \o
                       [k \in 1..Len(newChapters) |->
                           [bookId |-> insertedBook[1].id, chapter |-> newChapters[k]]]]
          /\ assetsLeft' = AssetEntries(assets, parsedEpub[1].manifest, 1)
          /\ pc' = "storeAssets"
          /\ response' = response
       \/ /\ HandlerThrows
          /\ UNCHANGED <<db, assetsLeft>>
    /\ UNCHANGED <<epubFile, unzippedEpub, opfLoc, opf, parsedEpub, index,
                   newChapters, assets, coverImageKey, minio, error, metaIn, metaOut,
                   htmlIn, chapterOut, earlier, request, insertedBook>>

\* await minio.write(s3Key, data, ...) for the next entry
WriteAsset ==
    /\ pc = "storeAssets"
    /\ assetsLeft # <<>>
    /\ \/ /\ minio' = MinioWrite(minio, AssetKey(insertedBook[1].id, Head(assetsLeft)),
                                 assets[Head(assetsLeft)])
          /\ pc' = "insertAsset"
          /\ response' = response
       \/ /\ HandlerThrows
          /\ minio' = minio
    /\ UNCHANGED <<epubFile, unzippedEpub, opfLoc, opf, parsedEpub, index,
                   newChapters, assets, coverImageKey, error, metaIn, metaOut,
                   htmlIn, chapterOut, earlier, request, db, insertedBook, assetsLeft>>

\* await db.insert(assets).values({bookId, originalPath, mimeType, s3Key,
\* fileSize}) for that entry, and on to the next
InsertAsset ==
    /\ pc = "insertAsset"
    /\ \/ /\ db' = [db EXCEPT !.assets = Append(@,
                       [bookId |-> insertedBook[1].id,
                        originalPath |-> Head(assetsLeft),
                        mimeType |-> "application/octet-stream",
                        s3Key |-> AssetKey(insertedBook[1].id, Head(assetsLeft)),
                        fileSize |-> Len(assets[Head(assetsLeft)].raw)])]
          /\ assetsLeft' = Tail(assetsLeft)
          /\ pc' = "storeAssets"
          /\ response' = response
       \/ /\ HandlerThrows
          /\ UNCHANGED <<db, assetsLeft>>
    /\ UNCHANGED <<epubFile, unzippedEpub, opfLoc, opf, parsedEpub, index,
                   newChapters, assets, coverImageKey, minio, error, metaIn, metaOut,
                   htmlIn, chapterOut, earlier, request, insertedBook>>

\* return c.json({book: insertedBook, chaptersCount})
Respond ==
    /\ pc = "storeAssets"
    /\ assetsLeft = <<>>
    /\ pc' = "responded"
    /\ response' = Some("200")
    /\ UNCHANGED <<epubFile, unzippedEpub, opfLoc, opf, parsedEpub, index,
                   newChapters, assets, coverImageKey, minio, error, metaIn, metaOut,
                   htmlIn, chapterOut, earlier, request, db, insertedBook, assetsLeft>>

NextUpload ==
    \/ ReceiveRequest
    \/ Next
    \/ ParseEpubThrows
    \/ InsertBook
    \/ InsertChapters
    \/ WriteAsset
    \/ InsertAsset
    \/ Respond

SpecUpload == InitUpload /\ [][NextUpload]_vars

(***************************************************************************)
(* Properties                                                              *)
(***************************************************************************)
\* the parsed package document has a spine entry whose idref no manifest
\* item declares
DanglingAt(pkg, i) ==
    \A j \in 1..Len(pkg.manifest) : pkg.manifest[j].id # pkg.spine[i].idref

HasDanglingSpine(pkg) == \E i \in 1..Len(pkg.spine) : DanglingAt(pkg, i)

C2_ChapterIndexes ==
    pc = "done" =>
        /\ Len(newChapters) <= Len(parsedEpub[1].spine)
        /\ \A k \in 1..Len(newChapters) :
                /\ newChapters[k].spineIndex \in 0..(Len(parsedEpub[1].spine) - 1)
                /\ newChapters[k].chapterNumber = newChapters[k].spineIndex + 1
        /\ \A k, l \in 1..Len(newChapters) :
                k < l => newChapters[k].spineIndex < newChapters[l].spineIndex

\* the first spine entry was skipped and the second kept its number
C2_Witness ==
    /\ pc = "done"
    /\ Len(parsedEpub[1].spine) = 2
    /\ Len(newChapters) = 1
    /\ newChapters[1].spineIndex = 1
    /\ newChapters[1].chapterNumber = 2

\* C3: for an archive without META-INF/container.xml, ingestion stops in
\* findOpfPath with the "container.xml not found" error and with no other
\* error, before the package document is looked up.
C3_ContainerMissing ==
    (epubFile.valid /\ containerPath \notin DOMAIN epubFile.files) =>
        /\ pc \in {"unzipEpub", "findOpfPath", "failed"}
        /\ (pc = "failed" => error = ErrContainerNotFound)
        /\ opfLoc = None
        /\ opf = None

\* an archive that holds a package document but no container.xml was rejected
C3_Witness ==
    /\ pc = "failed"
    /\ epubFile.valid
    /\ containerPath \notin DOMAIN unzippedEpub
    /\ <<"OEBPS", "content.opf">> \in DOMAIN unzippedEpub

\* C4: a container.xml without rootfile entries (empty or absent <rootfiles>)
\* makes findOpfPath fail with the "No rootfile found" error, with no other
\* error, and it returns no path.
C4_NoRootfileError ==
    (/\ epubFile.valid
     /\ containerPath \in DOMAIN epubFile.files
     /\ Len(epubFile.files[containerPath].rootfile) = 0) =>
        /\ opfLoc = None
        /\ (pc = "failed" => error = ErrNoRootfile)

\* C5: with one or more rootfile entries, findOpfPath returns the full-path
\* of the first one as opfPath and its directory as opfBasePath.
C5_FirstRootfile ==
    (/\ epubFile.valid
     /\ containerPath \in DOMAIN epubFile.files
     /\ Len(epubFile.files[containerPath].rootfile) >= 1
     /\ pc \notin {"unzipEpub", "findOpfPath"}) =>
        /\ opfLoc # None
        /\ opfLoc[1].opfPath = epubFile.files[containerPath].rootfile[1]
        /\ opfLoc[1].opfBasePath =
              (IF Len(opfLoc[1].opfPath) = 1 THEN <<"">>
               ELSE SubSeq(opfLoc[1].opfPath, 1, Len(opfLoc[1].opfPath) - 1))

\* C6: when the path findOpfPath returned is no key of the archive,
\* parseOpfFile fails with the "OPF file not found" error; no package
\* document and no ParsedEpub is produced.
C6_PackageMissing ==
    (opfLoc # None /\ opfLoc[1].opfPath \notin DOMAIN unzippedEpub) =>
        /\ pc \in {"parseOpfFile", "failed"}
        /\ (pc = "failed" => error = ErrOpfNotFound)
        /\ opf = None
        /\ parsedEpub = None

\* the container named OEBPS/content.opf, the archive has none there
C6_Witness ==
    /\ pc = "failed"
    /\ opfLoc # None
    /\ opfLoc[1].opfPath = <<"OEBPS", "content.opf">>
    /\ opfLoc[1].opfPath \notin DOMAIN unzippedEpub

\* C7: the title extractMetadata returns is a non-empty string, and it is
\* "Untitled" when no title element is present or its text is empty.
C7_TitleNonEmptyString ==
    metaOut # None =>
        /\ metaOut[1].title.t = "string"
        /\ metaOut[1].title.v # ""
        /\ (metaIn[1].title \in {Undef, Str("")} => metaOut[1].title = Str("Untitled"))

\* C8: a package with a manifest and a spine without entries is ingested
\* without error; spine and chapters are empty and there is no cover.
C8_EmptySpineSucceeds ==
    (opf # None /\ Len(opf[1].manifest) > 0 /\ Len(opf[1].spine) = 0) =>
        /\ pc # "failed"
        /\ pc = "done" =>
              /\ parsedEpub[1].spine = <<>>
              /\ newChapters = <<>>
              /\ coverImageKey = None

\* the spine entry at position i (1-based) resolves to a manifest item whose
\* file is, or is not, in the archive
ChapterFileAt(i) ==
    LET item == FindManifestItem(parsedEpub[1].manifest, parsedEpub[1].spine[i].idref)
    IN  IF item = None THEN "unresolved"
        ELSE IF JoinPath(parsedEpub[1].opfBasePath, item[1].href) \in DOMAIN unzippedEpub
            THEN "present"
        ELSE "absent"

\* C9: when the chapter file of a spine entry is absent, chapter extraction
\* does not fail: once it is over, the entry has no chapter and every entry
\* whose file is present has its chapter, at its own spine position.
C9_MissingChapterSkipped ==
    (parsedEpub # None /\ \E i \in 1..Len(parsedEpub[1].spine) : ChapterFileAt(i) = "absent") =>
        /\ pc # "failed"
        /\ pc \in {"uploadCoverImage", "done"} =>
              \A i \in 1..Len(parsedEpub[1].spine) :
                 /\ ChapterFileAt(i) = "absent" =>
                       \A k \in 1..Len(newChapters) : newChapters[k].spineIndex # i - 1
                 /\ ChapterFileAt(i) = "present" =>
                       \E k \in 1..Len(newChapters) : newChapters[k].spineIndex = i - 1

\* C10: an exception of the markup parser on one chapter does not leave
\* chapter extraction: after extractEpubInfo has returned, parseEpub never
\* rejects.
C10_ParseErrorContained ==
    parsedEpub # None => pc # "failed"

\* the tokens between the body start tag and the body end tag
BodyRegion(raw) ==
    LET i == CHOOSE x \in 1..Len(raw) :
                 /\ raw[x] \in BodyOpenTokens
                 /\ \A y \in 1..(x - 1) : raw[y] \notin BodyOpenTokens
        j == CHOOSE x \in (i + 1)..Len(raw) :
                 /\ raw[x] \in BodyCloseTokens
                 /\ \A y \in (i + 1)..(x - 1) : raw[y] \notin BodyCloseTokens
    IN  SubSeq(raw, i + 1, j - 1)

\* C11: the word count of a chapter markup that has a body element is the
\* number of words of the region between the body tags, an empty region
\* included; text of the head never counts
C11_BodyWordsOnly ==
    pc = "returned" /\ chapterOut # <<>> =>
        chapterOut[1].value[1].wordCount = CountWords(BodyRegion(htmlIn[1].raw))

\* C12: two chapter markups that differ only in whitespace between words and
\* tags have the same word count
C12_WhitespaceInvariant ==
    pc = "returned" /\ chapterOut # <<>> =>
        chapterOut[1].value[1].wordCount = chapterOut[2].value[1].wordCount

\* C13: a second parseEpub of the same buffer ends as the first did, and
\* when it returns, its chapters (content, spineIndex, chapterNumber, title,
\* wordCount, href) and its assets map are those of the first, whatever the
\* first left in object storage and whichever random cover key either drew
C13_SameChaptersAndAssets ==
    earlier # None /\ pc \in {"done", "failed"} =>
        /\ (pc = "done") = earlier[1].returned
        /\ error = earlier[1].error
        /\ pc = "done" => /\ newChapters = earlier[1].chapters
                          /\ assets = earlier[1].assets

\* both runs returned chapters and assets, drew different cover keys, and
\* the second ran against storage that held the first run's cover
C13_Witness ==
    /\ earlier # None
    /\ pc = "done"
    /\ Len(newChapters) >= 2
    /\ DOMAIN assets # {}
    /\ coverImageKey # None
    /\ earlier[1].coverImageKey # None
    /\ coverImageKey # earlier[1].coverImageKey
    /\ Cardinality(minio) = 2

\* the archive path of a manifest href: packageBasePath, "/", href, or the
\* href alone when the base path is the empty string
ResolvedPath(base, href) == IF base = <<"">> THEN href ELSE base \o href

C15_AssetEntries ==
    pc = "returned" =>
        LET manifest == parsedEpub[1].manifest
            base == parsedEpub[1].opfBasePath
            items == 1..Len(manifest)
            declared == {manifest[i].href : i \in items}
        IN  /\ error = NoError
            /\ DOMAIN assets \subseteq declared
            /\ \A h \in declared :
                  /\ h \in DOMAIN assets <=>
                        /\ \E i \in items : /\ manifest[i].href = h
                                            /\ ~IsChapterMediaType(manifest[i].mediaType)
                        /\ ResolvedPath(base, h) \in DOMAIN unzippedEpub
                  /\ h \in DOMAIN assets => assets[h] = unzippedEpub[ResolvedPath(base, h)]

\* under a base path, the stylesheet's file is absent and the image, which
\* is present, is collected
C15_Witness ==
    /\ pc = "returned"
    /\ parsedEpub[1].opfBasePath = <<"OEBPS">>
    /\ \E i \in 1..Len(parsedEpub[1].manifest) : parsedEpub[1].manifest[i].id = "css1"
    /\ <<"OEBPS", "style.css">> \notin DOMAIN unzippedEpub
    /\ <<"style.css">> \in DOMAIN unzippedEpub
    /\ DOMAIN assets = {<<"images", "cover.jpg">>}
    /\ assets[<<"images", "cover.jpg">>] = Jpeg

\* the parsed books that are parsed but for the declared cover id, the
\* declared cover item and the spine entries after the first
CoverVariants(parsed) ==
    {[parsed EXCEPT !.metadata.coverImageId = id, !.coverItem = item,
                    !.spine = <<parsed.spine[1]>> \o rest] :
        id \in {Undef, Str("img1"), Str("c2")},
        item \in {None} \cup {Some(parsed.manifest[i]) : i \in 1..Len(parsed.manifest)},
        rest \in SeqsUpTo({[idref |-> r, linear |-> TRUE] : r \in SpineIds}, MaxSpine - 1)}

\* C16: the image the cover resolver selects, or that it selects none, is
\* the same for two parsed books over the same archive that differ only in
\* metadata.coverImageId, in coverItem or in the spine after its first entry
C16_CoverFromFirstSpineEntry ==
    pc \in {"uploadCoverImage", "done"} =>
        /\ \A other \in CoverVariants(parsedEpub[1]) :
              CoverImage(unzippedEpub, other) = CoverImage(unzippedEpub, parsedEpub[1])
        /\ pc = "done" => (coverImageKey # None
                              => CoverImage(unzippedEpub, parsedEpub[1]) # None)
        /\ \A object \in minio :
              object.data = CoverImage(unzippedEpub, parsedEpub[1])[1].imageData

\* the manifest declares a cover image whose file is in the archive, the
\* spine has a second entry, and the image written is the one of the first
\* chapter, not the declared one
C16_Witness ==
    /\ pc = "done"
    /\ coverImageKey # None
    /\ Len(parsedEpub[1].spine) >= 2
    /\ parsedEpub[1].coverItem # None
    /\ JoinPath(parsedEpub[1].opfBasePath, parsedEpub[1].coverItem[1].href)
          \in DOMAIN unzippedEpub
    /\ \E object \in minio : object.data = Png

\* the first spine entry names a manifest item whose file is in the archive
\* and parses
FirstChapterParses ==
    /\ pc \in {"uploadCoverImage", "done"}
    /\ \E i \in 1..Len(parsedEpub[1].manifest) :
          parsedEpub[1].manifest[i].id = parsedEpub[1].spine[1].idref
    /\ LET parsed == parsedEpub[1]
           i == CHOOSE x \in 1..Len(parsed.manifest) :
                    /\ parsed.manifest[x].id = parsed.spine[1].idref
                    /\ \A y \in 1..(x - 1) : parsed.manifest[y].id # parsed.spine[1].idref
           chapterPath == ResolvedPath(parsed.opfBasePath, parsed.manifest[i].href)
       IN  /\ chapterPath \in DOMAIN unzippedEpub
           /\ unzippedEpub[chapterPath].parse = "ok"

\* the archive path of the first spine entry's chapter
FirstChapterPath ==
    LET parsed == parsedEpub[1]
        i == CHOOSE x \in 1..Len(parsed.manifest) :
                 /\ parsed.manifest[x].id = parsed.spine[1].idref
                 /\ \A y \in 1..(x - 1) : parsed.manifest[y].id # parsed.spine[1].idref
    IN  ResolvedPath(parsed.opfBasePath, parsed.manifest[i].href)

\* the directory of the chapter joined with src; src alone for a chapter at
\* the archive root
ImagePathBesideChapter(chapterPath, src) ==
    IF Len(chapterPath) = 1 THEN src
    ELSE SubSeq(chapterPath, 1, Len(chapterPath) - 1) \o src

\* C17: the bytes of the cover are those of the archive file at the
\* chapter's directory joined with the src found, and there is a cover to
\* write exactly when that file exists
C17_ImageBesideChapter ==
    FirstChapterParses =>
        LET src == findFirstImage(unzippedEpub[FirstChapterPath].tree)
            cover == CoverImage(unzippedEpub, parsedEpub[1])
        IN  src # None =>
                LET imagePath == ImagePathBesideChapter(FirstChapterPath, src)
                IN  /\ cover # None <=> imagePath \in DOMAIN unzippedEpub
                    /\ cover # None => cover[1].imageData = unzippedEpub[imagePath]
                    /\ \A object \in minio : object.data = unzippedEpub[imagePath]

\* the chapter is in a directory below the package's, the package's
\* directory holds another image of the name, and the one beside the
\* chapter was written
C17_Witness ==
    /\ pc = "done"
    /\ FirstChapterParses
    /\ FirstChapterPath = <<"OEBPS", "text", "ch2.html">>
    /\ parsedEpub[1].opfBasePath = <<"OEBPS">>
    /\ <<"OEBPS", "pics", "logo.png">> \in DOMAIN unzippedEpub
    /\ coverImageKey # None
    /\ \E object \in minio : object.data = unzippedEpub[<<"OEBPS", "text", "pics", "logo.png">>]

\* element names of the chapter trees: those that occur once under their
\* parent (parsed to an object) and those that repeat (parsed to an array)
SingleElements == {"html", "head", "body", "section"}
RepeatedElements == {"div", "p"}

\* the parsed markup holds an img element with a src, at any depth
RECURSIVE HasImage(_)
HasImage(node) ==
    \/ /\ "img" \in DOMAIN node
       /\ \E i \in 1..Len(node.img) : node.img[i].src \notin {None, EmptyStr}
    \/ \E name \in {n \in SingleElements : n \in DOMAIN node} : HasImage(node[name])
    \/ \E name \in {n \in RepeatedElements : n \in DOMAIN node} :
          \E i \in 1..Len(node[name]) : HasImage(node[name][i])

\* C18: when the parsed markup of the first spine chapter holds an img with
\* a src under any wrapper elements, the search finds an image
C18_ImageFoundAnywhere ==
    FirstChapterParses =>
        (HasImage(unzippedEpub[FirstChapterPath].tree)
            => findFirstImage(unzippedEpub[FirstChapterPath].tree) # None)

\* C19: cover resolution never makes parseEpub fail: parseEpub does not
\* reject once chapters and assets are collected, no cover is reported
\* where none is resolved, and a package whose spine is empty, which has
\* no cover, is ingested
C19_CoverNeverFatal ==
    /\ pc = "failed" /\ parsedEpub # None => index < Len(parsedEpub[1].spine)
    /\ pc = "done" /\ CoverImage(unzippedEpub, parsedEpub[1]) = None =>
          coverImageKey = None /\ minio = {}
    /\ pc = "failed" /\ opf # None /\ Len(opf[1].manifest) > 0 => Len(opf[1].spine) > 0

DeclaredText(element) ==
    CASE element.t = "string" -> element.v
      [] element.t = "number" -> element.v
      [] element.t = "object" ->
            IF element.text.t \in {"string", "number"} /\ element.text.v # ""
                THEN element.text.v
            ELSE IF element.under.t \in {"string", "number"} THEN element.under.v
            ELSE ""
      [] OTHER -> ""

\* the elements a raw value stands for, in declaration order
DeclaredElements(value) ==
    CASE value.t = "undefined" -> <<>>
      [] value.t = "array" -> value.items
      [] OTHER -> <<value>>

\* the non-empty texts of the declared elements, in declaration order
RECURSIVE DeclaredTexts(_)
DeclaredTexts(elements) ==
    IF elements = <<>> THEN <<>>
    ELSE (IF DeclaredText(Head(elements)) = "" THEN <<>>
          ELSE <<Str(DeclaredText(Head(elements)))>>)
         \o DeclaredTexts(Tail(elements))

\* C21: authors is the list of the texts of the declared creator elements,
\* in declaration order and with duplicates; author is its first element,
\* and both are undefined when no creator text is declared
C21_AuthorsInOrder ==
    metaOut # None =>
        LET texts == DeclaredTexts(DeclaredElements(metaIn[1].creator))
        IN  /\ metaOut[1].authors = (IF texts = <<>> THEN None ELSE Some(texts))
            /\ metaOut[1].author = (IF texts = <<>> THEN Undef ELSE texts[1])

\* C22: a single-valued element declared with non-empty text, as a bare
\* string, an object with its text, or a list of either, sets its field:
\* title is not "Untitled" and the other fields are not undefined
C22_AllShapesAccepted ==
    metaOut # None =>
        /\ DeclaredTexts(DeclaredElements(metaIn[1].title)) # <<>>
              => metaOut[1].title # Str("Untitled")
        /\ DeclaredTexts(DeclaredElements(metaIn[1].publisher)) # <<>>
              => metaOut[1].publisher # Undef
        /\ DeclaredTexts(DeclaredElements(metaIn[1].language)) # <<>>
              => metaOut[1].language # Undef
        /\ DeclaredTexts(DeclaredElements(metaIn[1].identifier)) # <<>>
              => metaOut[1].isbn # Undef
        /\ DeclaredTexts(DeclaredElements(metaIn[1].description)) # <<>>
              => metaOut[1].description # Undef
        /\ DeclaredTexts(DeclaredElements(metaIn[1].date)) # <<>>
              => metaOut[1].date # Undef
        /\ DeclaredTexts(DeclaredElements(metaIn[1].rights)) # <<>>
              => metaOut[1].rights # Undef

\* C23: coverImageId is the content attribute of the first meta element
\* named "cover" or of property "cover-image", or the text of that element
\* when it has no content attribute; undefined when there is no such element
C23_CoverIdFromContentOrText ==
    metaOut # None =>
        LET meta == metaIn[1].meta
            hits == {i \in 1..Len(meta) :
                        meta[i].name = "cover" \/ meta[i].property = "cover-image"}
        IN  IF hits = {} THEN metaOut[1].coverImageId = Undef
            ELSE LET first == meta[CHOOSE i \in hits : \A j \in hits : i <= j]
                 IN  metaOut[1].coverImageId =
                        (IF Truthy(first.content) THEN first.content ELSE first.text)

\* the position of the first manifest item whose id is idref
FirstWithId(manifest, idref) ==
    CHOOSE x \in 1..Len(manifest) :
        /\ manifest[x].id = idref
        /\ \A y \in 1..(x - 1) : manifest[y].id # idref

\* C24: a spine entry resolves to the first manifest item of its id: every
\* chapter has the href and the content of that item's file, and the cover
\* is looked for in that item's file and in no later item's
C24_FirstIdWins ==
    parsedEpub # None =>
        LET parsed == parsedEpub[1]
        IN  /\ \A k \in 1..Len(newChapters) :
                  LET first == FirstWithId(parsed.manifest,
                                           parsed.spine[newChapters[k].spineIndex + 1].idref)
                      path == ResolvedPath(parsed.opfBasePath, parsed.manifest[first].href)
                  IN  /\ newChapters[k].href = parsed.manifest[first].href
                      /\ path \in DOMAIN unzippedEpub
                      /\ newChapters[k].htmlContent = Trim(unzippedEpub[path].raw)
            /\ (/\ \E i \in 1..Len(parsed.manifest) :
                      parsed.manifest[i].id = parsed.spine[1].idref
                /\ CoverImage(unzippedEpub, parsed) # None)
                  => /\ FirstChapterPath \in DOMAIN unzippedEpub
                     /\ findFirstImage(unzippedEpub[FirstChapterPath].tree)
                           = CoverImage(unzippedEpub, parsed)[1].imageSrc

\* two manifest items have the id of the first spine entry and the files of
\* both are in the archive; the chapter and the cover are those of the first
C24_Witness ==
    /\ pc = "done"
    /\ coverImageKey # None
    /\ Len(newChapters) >= 1
    /\ newChapters[1].spineIndex = 0
    /\ newChapters[1].href = <<"ch1.xhtml">>
    /\ Cardinality({i \in 1..Len(parsedEpub[1].manifest) :
                       parsedEpub[1].manifest[i].id = parsedEpub[1].spine[1].idref}) = 2
    /\ <<"OEBPS", "ch1.xhtml">> \in DOMAIN unzippedEpub
    /\ <<"OEBPS", "text", "ch2.html">> \in DOMAIN unzippedEpub
    /\ unzippedEpub[<<"OEBPS", "text", "ch2.html">>] = DocNested

\* C25: the extension of a written cover begins with ".": it is the suffix
\* of the reference from its last ".", and never the whole reference
C25_ExtensionHasDot ==
    pc = "done" /\ coverImageKey # None =>
        LET imageSrc == CoverImage(unzippedEpub, parsedEpub[1])[1].imageSrc
        IN  /\ coverImageKey[1].extension \in {<<".jpg">>, <<".png">>}
            /\ coverImageKey[1].extension # imageSrc

\* the src of the first img start tag of the markup, optional
FirstImageInDocument(raw) ==
    LET at == {i \in 1..Len(raw) : raw[i] \in DOMAIN ImgTokenSrc}
    IN  IF at = {} THEN None
        ELSE ImgTokenSrc[raw[CHOOSE i \in at : \A j \in at : i <= j]]

\* C26: of several images of the first chapter, the one found is the first
\* in document order
C26_FirstInDocumentOrder ==
    pc = "done" /\ FirstChapterParses =>
        LET doc == unzippedEpub[FirstChapterPath]
            first == FirstImageInDocument(doc.raw)
        IN  first # None =>
                /\ findFirstImage(doc.tree) = first
                /\ \A object \in minio :
                      object.data
                         = unzippedEpub[ImagePathBesideChapter(FirstChapterPath, first)]

\* C27: every row of the assets table belongs to the book row this request
\* inserted, has the key books/<bookId>/assets/<originalPath>, and names an
\* object that storage already holds with the bytes of that asset; once the
\* request has answered 200 there is exactly one row per key of the assets map
C27_AssetRows ==
    /\ \A k \in 1..Len(db.assets) :
          /\ insertedBook # None
          /\ insertedBook[1] \in db.books
          /\ insertedBook[1].id \in NewBookIds
          /\ db.assets[k].bookId = insertedBook[1].id
          /\ db.assets[k].s3Key = [bookId |-> db.assets[k].bookId,
                                   originalPath |-> db.assets[k].originalPath]
          /\ db.assets[k].originalPath \in DOMAIN assets
          /\ \E object \in minio :
                /\ object.key = db.assets[k].s3Key
                /\ object.data = assets[db.assets[k].originalPath]
    /\ response = Some("200") =>
          \A h \in DOMAIN assets :
             Cardinality({k \in 1..Len(db.assets) : db.assets[k].originalPath = h}) = 1

\* a request that answered 200 after storing two assets beside the cover
C27_Witness ==
    /\ response = Some("200")
    /\ Cardinality(DOMAIN assets) = 2
    /\ Len(db.assets) = 2
    /\ coverImageKey # None
    /\ Cardinality(minio) = 3

\* C28: when a step after the insert of the book row throws, no book row,
\* chapter row or asset row of the upload remains
C28_UploadAtomic ==
    response = Some("exception") /\ insertedBook # None =>
        db = [EmptyDb EXCEPT !.books = {ExistingBook}]

\* C30: after an upload that answered 200 with a cover key, the book row
\* references that key; and once a request is over, every cover object in
\* storage is referenced by exactly one book row
C30_CoverReferenced ==
    /\ response = Some("200") /\ coverImageKey # None =>
          insertedBook[1].coverImagePath = coverImageKey
    /\ response # None =>
          \A object \in minio :
             "uuid" \in DOMAIN object.key =>
                Cardinality({b \in db.books : b.coverImagePath = Some(object.key)}) = 1

\* C29: no manifest item is the source of a chapter and of an entry of the
\* assets map
C29_ChaptersAssetsDisjoint ==
    pc = "done" =>
        LET manifest == parsedEpub[1].manifest
            spine == parsedEpub[1].spine
        IN  \A k \in 1..Len(newChapters) :
               LET i == FirstWithId(manifest, spine[newChapters[k].spineIndex + 1].idref)
               IN  ~(/\ ~IsChapterMediaType(manifest[i].mediaType)
                     /\ manifest[i].href \in DOMAIN assets)

====
